---- MODULE Spec2Model ----
(***************************************************************************)
(* Msegat SMS/OTP gateway client (class Msegat).                           *)
(*                                                                         *)
(* The client holds a configuration validated at construction, builds one  *)
(* payload per operation and performs a single HTTPS POST per invocation.  *)
(* A public call is an async method awaiting the promise of sendRequest;   *)
(* that promise is settled by the listeners sendRequest registers on the   *)
(* request ('error') and on the response ('data', 'end').                  *)
(*                                                                         *)
(* A concatenated message is the sequence of its segments.  A response     *)
(* chunk is a Buffer: a sequence of bytes.  A decoded text is a sequence   *)
(* of code points.                                                         *)
(***************************************************************************)
EXTENDS Integers, Sequences, FiniteSets, TLC

VARIABLES
    phase,        \* "new" | "ready" | "failed": the `new Msegat(...)` expression
    ctorArgs,     \* the arguments of `new Msegat(u, k, s)`
    config,       \* this.config
    thrown,       \* message of the Error thrown by the constructor, or NoError
    op,           \* op[i]: the public method of invocation i, or NoOp
    args,         \* args[i]: the arguments of invocation i
    requests,     \* requests[i]: the POSTs issued for invocation i
    resStatus,    \* resStatus[i]: status code of the response, 0 before it arrives
    received,     \* received[i]: the chunks the socket delivered (history)
    data,         \* data[b]: the `let data` buffer of a response handler
    resEnded,     \* resEnded[i]: the response emitted 'end'
    reqErrored,   \* reqErrored[i]: the request emitted 'error'
    cause,        \* cause[i]: e.message of that 'error'
    reqPromise,   \* reqPromise[i]: the promise sendRequest returned
    callPromise,  \* callPromise[i]: the promise the public method returned
    settles,      \* settles[i]: how many times callPromise[i] changed state
    uncaught      \* invocations whose listener threw out of the event loop

vars == <<phase, ctorArgs, config, thrown, op, args, requests, resStatus,
          received, data, resEnded, reqErrored, cause, reqPromise,
          callPromise, settles, uncaught>>

ctorVars == <<phase, ctorArgs, config, thrown>>

callVars == <<op, args, requests, resStatus, received, data, resEnded,
              reqErrored, cause, reqPromise, callPromise, settles, uncaught>>

-----------------------------------------------------------------------------
(* Bounds *)

MaxCalls == 2      \* invocations in flight on one client
MaxLen == 2        \* length of the numbers / vars arrays
MaxBody == 4       \* bytes of one response body (single-call runs)
MaxChunk == 2      \* bytes of one chunk (single-call runs)
MaxConcBody == 2   \* bytes of one response body (concurrent runs)

Calls == 1..MaxCalls

-----------------------------------------------------------------------------
(* JavaScript values *)
(* Every JavaScript value carries its type, as typeof / Array.isArray see  *)
(* it, so that values of different types can be compared.                  *)

Undefined == <<"undefined">>
Str(s) == <<"string", s>>      \* s: a string literal, or a sequence of code points
Num(n) == <<"number", n>>
Arr(a) == <<"array", a>>       \* a: the sequence of the elements
Obj(f) == <<"object", f>>      \* f: own enumerable keys -> values
Null == <<"null">>
Bool(b) == <<"boolean", b>>

\* ToBoolean(x) is false (for the types the client handles)
Falsy(x) == x = Undefined \/ x = Null \/ x = Str("") \/ x = Num(0) \/ x = Bool(FALSE)

\* a || b
Or(a, b) == IF Falsy(a) THEN b ELSE a

\* o.k for an object o
Get(o, k) == IF k \in DOMAIN o[2] THEN o[2][k] ELSE Undefined

\* o?.k
OptGet(o, k) == IF o = Undefined \/ o = Null THEN Undefined ELSE Get(o, k)

\* { ...base, ...o }: the own keys of o are copied over those of base, an
\* own key whose value is undefined included; spreading undefined copies nothing.
Spread(base, o) ==
    IF o = Undefined \/ o = Null THEN base
    ELSE [k \in DOMAIN base \cup DOMAIN o[2] |->
            IF k \in DOMAIN o[2] THEN o[2][k] ELSE base[k]]

Range(s) == {s[n] : n \in 1..Len(s)}

SeqsUpTo(S, n) == UNION {[1..m -> S] : m \in 0..n}

-----------------------------------------------------------------------------
(* Construction *)

NoError == <<>>
ErrUsername == <<"Please add msegat username in the environment variables.">>
ErrSender == <<"Please add msegat user sender in the environment variables.">>
ErrApiKey == <<"Please add msegat API key in the environment variables.">>

DefaultSender == Str("almasah")

NoConfig == [MSEGAT_USERNAME |-> Undefined, MSEGAT_API_KEY |-> Undefined,
             MSEGAT_USER_SENDER |-> Undefined]

\* The object literal assigned to this.config.
NewConfig(a) ==
    [MSEGAT_USERNAME |-> a.username,
     MSEGAT_API_KEY |-> a.apiKey,
     MSEGAT_USER_SENDER |-> Or(a.sender, DefaultSender)]

\* as validateConfig, with the API key checked first
validateConfigKeyFirst(c) ==
    IF Falsy(c.MSEGAT_API_KEY) THEN ErrApiKey
    ELSE IF Falsy(c.MSEGAT_USERNAME) THEN ErrUsername
    ELSE IF Falsy(c.MSEGAT_USER_SENDER) THEN ErrSender
    ELSE NoError

\* The message validateConfig throws, NoError when it returns.
validateConfig(c) ==
    IF Falsy(c.MSEGAT_USERNAME) THEN ErrUsername
    ELSE IF Falsy(c.MSEGAT_USER_SENDER) THEN ErrSender
    ELSE IF Falsy(c.MSEGAT_API_KEY) THEN ErrApiKey
    ELSE NoError

UsernameArgs == {Undefined, Str(""), Str("testUser"), Str("admin")}
ApiKeyArgs == {Undefined, Str(""), Str("testApiKey"), Str("k2")}
SenderArgs == {Undefined, Str(""), Str("testSender"), Str("almasah")}

CtorArgs == [username : UsernameArgs, apiKey : ApiKeyArgs, sender : SenderArgs]

\* new Msegat(username, apiKey, sender)
Construct ==
    /\ phase = "new"
    /\ config' = NewConfig(ctorArgs)
    /\ thrown' = validateConfig(config')
    /\ phase' = IF thrown' = NoError THEN "ready" ELSE "failed"
    /\ UNCHANGED <<ctorArgs, callVars>>

-----------------------------------------------------------------------------
(* Payloads *)

Encoding == Str("UTF8")

\* createPayload(numbers, message)
createPayload(numbers, message) ==
    [userName |-> config.MSEGAT_USERNAME,
     numbers |-> numbers,
     userSender |-> Or(config.MSEGAT_USER_SENDER, DefaultSender),
     apiKey |-> config.MSEGAT_API_KEY,
     msg |-> message,
     msgEncoding |-> Encoding]

\* as createPayloadForPersonalizedSMS, but pairing each recipient with a
\* variable object: vars is cut to the length of numbers
createPayloadForPersonalizedSMSAligned(numbers, msg, vs, options) ==
    Spread([userName |-> config.MSEGAT_USERNAME,
            apiKey |-> config.MSEGAT_API_KEY,
            numbers |-> numbers,
            userSender |-> config.MSEGAT_USER_SENDER,
            msg |-> msg,
            msgEncoding |-> Or(OptGet(options, "msgEncoding"), Encoding),
            vars |-> Arr(SubSeq(vs[2], 1, IF Len(vs[2]) < Len(numbers[2])
                                          THEN Len(vs[2]) ELSE Len(numbers[2])))],
           options)

\* createPayloadForPersonalizedSMS(numbers, msg, vars, options)
createPayloadForPersonalizedSMS(numbers, msg, vs, options) ==
    Spread([userName |-> config.MSEGAT_USERNAME,
            apiKey |-> config.MSEGAT_API_KEY,
            numbers |-> numbers,
            userSender |-> config.MSEGAT_USER_SENDER,
            msg |-> msg,
            msgEncoding |-> Or(OptGet(options, "msgEncoding"), Encoding),
            vars |-> vs],
           options)

\* createPayloadForCostCalculation(contactType, contacts, msg, by, msgEncoding)
createPayloadForCostCalculation(contactType, contacts, msg, by, msgEncoding) ==
    [userName |-> config.MSEGAT_USERNAME,
     apiKey |-> config.MSEGAT_API_KEY,
     contactType |-> contactType,
     contacts |-> contacts,
     msg |-> msg,
     by |-> by,
     msgEncoding |-> msgEncoding]

\* the object literal of sendOTPCode
OTPPayload(number, lang) ==
    [lang |-> lang,
     userName |-> config.MSEGAT_USERNAME,
     number |-> number,
     apiKey |-> config.MSEGAT_API_KEY,
     userSender |-> config.MSEGAT_USER_SENDER]

\* the object literal of verifyOTPCode
VerifyPayload(code, id, lang) ==
    [lang |-> lang,
     userName |-> config.MSEGAT_USERNAME,
     apiKey |-> config.MSEGAT_API_KEY,
     code |-> code,
     id |-> id,
     userSender |-> config.MSEGAT_USER_SENDER]

\* JSON.stringify, as the document the server reads.  In an object, at any
\* depth, a key whose value is undefined is left out; in an array an
\* undefined element is written as null.  (Values it throws on, a cycle or
\* a BigInt, are not among the values above.)
RECURSIVE SerializeValue(_)
SerializeValue(v) ==
    IF v[1] = "array"
    THEN Arr([n \in 1..Len(v[2]) |->
                IF v[2][n] = Undefined THEN Null ELSE SerializeValue(v[2][n])])
    ELSE IF v[1] = "object"
    THEN Obj([k \in {j \in DOMAIN v[2] : v[2][j] # Undefined} |->
                SerializeValue(v[2][k])])
    ELSE v

\* JSON.stringify(payload)
JSONStringify(payload) ==
    [k \in {j \in DOMAIN payload : payload[j] # Undefined} |->
        SerializeValue(payload[k])]

-----------------------------------------------------------------------------
(* Operations: endpoints and error prefixes *)

NoOp == "none"
Ops == {"sendMessage", "sendPersonalizedMessages", "calculateMessageCost",
        "sendOTPCode", "verifyOTPCode"}

Host == "www.msegat.com"

\* as Endpoint, with verifyOTPCode posting to the URL of sendOTPCode
EndpointCopied(o) ==
    [hostname |-> Host,
     pathname |-> CASE o = "sendMessage" -> "/gw/sendsms.php"
                    [] o = "sendPersonalizedMessages" -> "/gw/sendVars.php"
                    [] o = "calculateMessageCost" -> "/gw/calculateCost.php"
                    [] o = "sendOTPCode" -> "/gw/sendOTPCode.php"
                    [] o = "verifyOTPCode" -> "/gw/sendOTPCode.php"]

\* new URL(url): hostname and pathname of the literal each method passes
Endpoint(o) ==
    [hostname |-> Host,
     pathname |-> CASE o = "sendMessage" -> "/gw/sendsms.php"
                    [] o = "sendPersonalizedMessages" -> "/gw/sendVars.php"
                    [] o = "calculateMessageCost" -> "/gw/calculateCost.php"
                    [] o = "sendOTPCode" -> "/gw/sendOTPCode.php"
                    [] o = "verifyOTPCode" -> "/gw/verifyOTPCode.php"]

\* as ErrorPrefix, with verifyOTPCode throwing the message of sendOTPCode
ErrorPrefixCopied(o) ==
    CASE o = "sendMessage" -> "Error sending message: "
      [] o = "sendPersonalizedMessages" -> "Error sending personalized messages: "
      [] o = "calculateMessageCost" -> "Error calculating message cost: "
      [] o = "sendOTPCode" -> "Error sending OTP code: "
      [] o = "verifyOTPCode" -> "Error sending OTP code: "

\* the template prefix of the Error each method's catch block throws
ErrorPrefix(o) ==
    CASE o = "sendMessage" -> "Error sending message: "
      [] o = "sendPersonalizedMessages" -> "Error sending personalized messages: "
      [] o = "calculateMessageCost" -> "Error calculating message cost: "
      [] o = "sendOTPCode" -> "Error sending OTP code: "
      [] o = "verifyOTPCode" -> "Error verifying OTP code: "

RequestErrorPrefix == "Problem with request: "

-----------------------------------------------------------------------------
(* Response text: `data += chunk` and JSON.parse(data)                     *)
(*                                                                         *)
(* No encoding is set on the response, so each chunk is a Buffer and       *)
(* `data += chunk` appends chunk.toString(): the UTF-8 decoding of that    *)
(* chunk alone.  Bytes are 0..223 here (sequences of one and two bytes);   *)
(* a byte that does not start or complete a sequence inside the chunk      *)
(* decodes to U+FFFD.                                                      *)

ReplacementChar == 65533

IsContinuation(b) == b \in 128..191
IsLead2(b) == b \in 194..223

RECURSIVE Utf8Decode(_)
Utf8Decode(b) ==
    IF b = <<>> THEN <<>>
    ELSE IF b[1] < 128 THEN <<b[1]>> \o Utf8Decode(Tail(b))
    ELSE IF IsLead2(b[1]) /\ Len(b) >= 2 /\ IsContinuation(b[2])
         THEN <<(b[1] - 192) * 64 + (b[2] - 128)>> \o Utf8Decode(Tail(Tail(b)))
    ELSE <<ReplacementChar>> \o Utf8Decode(Tail(b))

\* data + chunk
AppendChunk(d, chunk) == d \o Utf8Decode(chunk)

RECURSIVE Flatten(_)
Flatten(chunks) ==
    IF chunks = <<>> THEN <<>> ELSE Head(chunks) \o Flatten(Tail(chunks))

\* JSON.parse, for integers, strings without escapes, arrays, objects and
\* the three literals.  A result is [ok, val, next]: whether a value was
\* read, the value, and the position after it.
Fail == [ok |-> FALSE, val |-> Undefined, next |-> 0]
Done(v, n) == [ok |-> TRUE, val |-> v, next |-> n]

Whitespace == {32, 9, 10, 13}
Digits == 48..57

RECURSIVE SkipWs(_, _)
SkipWs(t, p) ==
    IF p <= Len(t) /\ t[p] \in Whitespace THEN SkipWs(t, p + 1) ELSE p

RECURSIVE ScanDigits(_, _)
ScanDigits(t, p) ==
    IF p <= Len(t) /\ t[p] \in Digits THEN ScanDigits(t, p + 1) ELSE p

RECURSIVE DigitsValue(_)
DigitsValue(d) ==
    IF d = <<>> THEN 0
    ELSE 10 * DigitsValue(SubSeq(d, 1, Len(d) - 1)) + (d[Len(d)] - 48)

ParseNumber(t, p) ==
    LET neg == t[p] = 45
        q == IF neg THEN p + 1 ELSE p
        e == IF q <= Len(t) /\ t[q] = 48 THEN q + 1 ELSE ScanDigits(t, q)
        n == DigitsValue(SubSeq(t, q, e - 1))
    IN  IF e = q THEN Fail ELSE Done(Num(IF neg THEN 0 - n ELSE n), e)

\* position of the closing quote of the string whose text starts at p, 0 if none
RECURSIVE ScanString(_, _)
ScanString(t, p) ==
    IF p > Len(t) THEN 0
    ELSE IF t[p] = 34 THEN p
    ELSE IF t[p] < 32 \/ t[p] = 92 THEN 0
    ELSE ScanString(t, p + 1)

ParseString(t, p) ==
    LET c == ScanString(t, p + 1)
    IN  IF c = 0 THEN Fail ELSE Done(Str(SubSeq(t, p + 1, c - 1)), c + 1)

StartsWith(t, p, lit) ==
    p + Len(lit) - 1 <= Len(t) /\ SubSeq(t, p, p + Len(lit) - 1) = lit

RECURSIVE ParseValue(_, _)
RECURSIVE ParseElements(_, _, _)
RECURSIVE ParseMembers(_, _, _)

ParseValue(t, p0) ==
    LET p == SkipWs(t, p0)
    IN  IF p > Len(t) THEN Fail
        ELSE IF t[p] = 34 THEN ParseString(t, p)
        ELSE IF t[p] = 45 \/ t[p] \in Digits THEN ParseNumber(t, p)
        ELSE IF t[p] = 91 THEN
            LET q == SkipWs(t, p + 1)
            IN  IF q <= Len(t) /\ t[q] = 93 THEN Done(Arr(<<>>), q + 1)
                ELSE ParseElements(t, q, <<>>)
        ELSE IF t[p] = 123 THEN
            LET q == SkipWs(t, p + 1)
            IN  IF q <= Len(t) /\ t[q] = 125 THEN Done(Obj(<<>>), q + 1)
                ELSE ParseMembers(t, q, <<>>)
        ELSE IF StartsWith(t, p, <<116, 114, 117, 101>>) THEN Done(Bool(TRUE), p + 4)
        ELSE IF StartsWith(t, p, <<102, 97, 108, 115, 101>>) THEN Done(Bool(FALSE), p + 5)
        ELSE IF StartsWith(t, p, <<110, 117, 108, 108>>) THEN Done(Null, p + 4)
        ELSE Fail

ParseElements(t, p, acc) ==
    LET v == ParseValue(t, p)
        q == SkipWs(t, v.next)
    IN  IF ~v.ok \/ q > Len(t) THEN Fail
        ELSE IF t[q] = 44 THEN ParseElements(t, q + 1, Append(acc, v.val))
        ELSE IF t[q] = 93 THEN Done(Arr(Append(acc, v.val)), q + 1)
        ELSE Fail

ParseMembers(t, p, acc) ==
    LET q == SkipWs(t, p)
        k == IF q <= Len(t) /\ t[q] = 34 THEN ParseString(t, q) ELSE Fail
        c == SkipWs(t, k.next)
        v == IF k.ok /\ c <= Len(t) /\ t[c] = 58 THEN ParseValue(t, c + 1) ELSE Fail
        e == SkipWs(t, v.next)
        key == k.val[2]
        acc2 == [x \in DOMAIN acc \cup {key} |-> IF x = key THEN v.val ELSE acc[x]]
    IN  IF ~v.ok \/ e > Len(t) THEN Fail
        ELSE IF t[e] = 44 THEN ParseMembers(t, e + 1, acc2)
        ELSE IF t[e] = 125 THEN Done(Obj(acc2), e + 1)
        ELSE Fail

\* JSON.parse(text): ok is FALSE where it throws a SyntaxError
JSONParse(t) ==
    LET v == ParseValue(t, 1)
    IN  IF v.ok /\ SkipWs(t, v.next) = Len(t) + 1 THEN v ELSE Fail

-----------------------------------------------------------------------------
(* Promises *)

NoPromise == [state |-> "none", value |-> Undefined, message |-> <<>>]
Pending == [state |-> "pending", value |-> Undefined, message |-> <<>>]
Resolved(v) == [state |-> "resolved", value |-> v, message |-> <<>>]
Rejected(m) == [state |-> "rejected", value |-> Undefined, message |-> m]

\* `return await this.sendRequest(...)` inside try / catch: the promise of the
\* public method o once the promise p of sendRequest is settled
AwaitResult(o, p) ==
    IF p.state = "resolved" THEN Resolved(p.value)
    ELSE Rejected(<<ErrorPrefix(o)>> \o p.message)

\* resolve(...) / reject(...) of the executor of sendRequest: they settle the
\* promise of sendRequest only, and a settled promise ignores them.
Settle(i, p) ==
    reqPromise' = IF reqPromise[i].state = "pending"
                  THEN [reqPromise EXCEPT ![i] = p]
                  ELSE reqPromise

-----------------------------------------------------------------------------
(* sendRequest: the request it issues and the listeners it registers *)

\* the options of request(...) and what req.write sends
Request(o, payload) ==
    [hostname |-> Endpoint(o).hostname,
     path |-> Endpoint(o).pathname,
     method |-> "POST",
     contentType |-> "application/json",
     payload |-> payload,
     body |-> JSONStringify(payload)]

\* as BufferOf, with `data` declared once for the client instead of once
\* per response
BufferOfShared(i) == 1

\* the `data` a response handler of invocation i accumulates into: declared
\* inside the response callback, one per response
BufferOf(i) == i

\* a public method o called with arguments a: builds the payload, calls
\* sendRequest and suspends at the await
Invoke(i, o, a, payload) ==
    /\ phase = "ready"
    /\ op[i] = NoOp
    /\ \A j \in 1..(i - 1) : op[j] # NoOp
    /\ op' = [op EXCEPT ![i] = o]
    /\ args' = [args EXCEPT ![i] = a]
    /\ requests' = [requests EXCEPT ![i] = Append(@, Request(o, payload))]
    /\ reqPromise' = [reqPromise EXCEPT ![i] = Pending]
    /\ callPromise' = [callPromise EXCEPT ![i] = Pending]
    /\ UNCHANGED <<ctorVars, resStatus, received, data, resEnded, reqErrored,
                   cause, settles, uncaught>>

sendMessage(i, number, message) ==
    Invoke(i, "sendMessage", [number |-> number, message |-> message],
           createPayload(number, message))

sendPersonalizedMessages(i, numbers, msg, vs, options) ==
    Invoke(i, "sendPersonalizedMessages",
           [numbers |-> numbers, msg |-> msg, vars |-> vs, options |-> options],
           createPayloadForPersonalizedSMS(numbers, msg, vs, options))

calculateMessageCost(i, contactType, contacts, msg, by, msgEncoding) ==
    Invoke(i, "calculateMessageCost",
           [contactType |-> contactType, contacts |-> contacts, msg |-> msg,
            by |-> by, msgEncoding |-> msgEncoding],
           createPayloadForCostCalculation(contactType, contacts, msg, by, msgEncoding))

sendOTPCode(i, number, lang) ==
    Invoke(i, "sendOTPCode", [number |-> number, lang |-> lang],
           OTPPayload(number, lang))

verifyOTPCode(i, code, id, lang) ==
    Invoke(i, "verifyOTPCode", [code |-> code, id |-> id, lang |-> lang],
           VerifyPayload(code, id, lang))

\* the callback of request(options, (res) => ...): the response head arrived
Response(i, status) ==
    /\ op[i] # NoOp
    /\ resStatus[i] = 0
    /\ ~reqErrored[i]
    /\ resStatus' = [resStatus EXCEPT ![i] = status]
    /\ data' = [data EXCEPT ![BufferOf(i)] = <<>>]
    /\ UNCHANGED <<ctorVars, op, args, requests, received, resEnded, reqErrored,
                   cause, reqPromise, callPromise, settles, uncaught>>

\* res.on('data', (chunk) => { data += chunk; })
Data(i, chunk, maxBody) ==
    /\ resStatus[i] # 0
    /\ ~resEnded[i]
    /\ Len(Flatten(received[i])) + Len(chunk) <= maxBody
    /\ received' = [received EXCEPT ![i] = Append(@, chunk)]
    /\ data' = [data EXCEPT ![BufferOf(i)] = AppendChunk(@, chunk)]
    /\ UNCHANGED <<ctorVars, op, args, requests, resStatus, resEnded, reqErrored,
                   cause, reqPromise, callPromise, settles, uncaught>>

\* res.on('end', () => { resolve(JSON.parse(data)); }): a SyntaxError of
\* JSON.parse is thrown by the listener, outside the promise executor: nothing
\* catches it and neither resolve nor reject is called.
End(i) ==
    /\ resStatus[i] # 0
    /\ ~resEnded[i]
    /\ resEnded' = [resEnded EXCEPT ![i] = TRUE]
    /\ LET r == JSONParse(data[BufferOf(i)])
       IN  IF r.ok
           THEN Settle(i, Resolved(r.val)) /\ UNCHANGED uncaught
           ELSE uncaught' = uncaught \cup {i} /\ UNCHANGED reqPromise
    /\ UNCHANGED <<ctorVars, op, args, requests, resStatus, received, data,
                   reqErrored, cause, callPromise, settles>>

\* req.on('error', (e) => { reject(new Error(`Problem with request: ${e.message}`)); })
Error(i, c) ==
    /\ op[i] # NoOp
    /\ ~reqErrored[i]
    /\ reqErrored' = [reqErrored EXCEPT ![i] = TRUE]
    /\ cause' = [cause EXCEPT ![i] = c]
    /\ Settle(i, Rejected(<<RequestErrorPrefix, c>>))
    /\ UNCHANGED <<ctorVars, op, args, requests, resStatus, received, data,
                   resEnded, callPromise, settles, uncaught>>

\* `return await this.sendRequest(...)` inside try / catch: the method resumes
\* in a later microtask, once the promise of sendRequest is settled, and only
\* then settles its own promise; listeners may run in between.
Resume(i) ==
    /\ reqPromise[i].state \in {"resolved", "rejected"}
    /\ callPromise[i].state = "pending"
    /\ callPromise' = [callPromise EXCEPT ![i] = AwaitResult(op[i], reqPromise[i])]
    /\ settles' = [settles EXCEPT ![i] = @ + 1]
    /\ UNCHANGED <<ctorVars, op, args, requests, resStatus, received, data,
                   resEnded, reqErrored, cause, reqPromise, uncaught>>

-----------------------------------------------------------------------------
(* Inputs *)

TestArgs == [username |-> Str("testUser"), apiKey |-> Str("testApiKey"),
             sender |-> Str("testSender")]

Number == Str("1234567890")
Message == Str("Test Message")
Template == Str("Hello {name}")
Numbers == {Str("1234567890"), Str("0987654321")}
Vars == {Obj([name |-> Str("John")]), Obj([name |-> Str("Doe")]),
         Obj([name |-> Undefined])}

\* every options argument: omitted, or an object with any subset of the
\* five keys; msgEncoding present may be undefined, empty or a name
OptionKeys == {"timeToSend", "exactTime", "reqBulkId", "reqFilter"}
EncodingValues == {Undefined, Str(""), Str("UTF8"), Str("windows-1256")}
Options ==
    {Undefined}
      \cup {Obj([k \in K |-> Str("now")]) : K \in SUBSET OptionKeys}
      \cup {Obj([k \in K \cup {"msgEncoding"} |->
                   IF k = "msgEncoding" THEN e ELSE Str("now")])
              : K \in SUBSET OptionKeys, e \in EncodingValues}

Bytes == {49, 34, 195, 169}
Chunks == SeqsUpTo(Bytes, MaxChunk) \ {<<>>}
ConcChunks == {<<49>>}
StatusCodes == {200, 500}
Causes == {"socket hang up", "connect ECONNREFUSED"}

-----------------------------------------------------------------------------
(* Specifications *)

NoCalls ==
    /\ op = [i \in Calls |-> NoOp]
    /\ args = [i \in Calls |-> <<>>]
    /\ requests = [i \in Calls |-> <<>>]
    /\ resStatus = [i \in Calls |-> 0]
    /\ received = [i \in Calls |-> <<>>]
    /\ data = [i \in Calls |-> <<>>]
    /\ resEnded = [i \in Calls |-> FALSE]
    /\ reqErrored = [i \in Calls |-> FALSE]
    /\ cause = [i \in Calls |-> ""]
    /\ reqPromise = [i \in Calls |-> NoPromise]
    /\ callPromise = [i \in Calls |-> NoPromise]
    /\ settles = [i \in Calls |-> 0]
    /\ uncaught = {}

\* before `new Msegat(...)`, for every argument list
ConfigInit ==
    /\ phase = "new"
    /\ ctorArgs \in CtorArgs
    /\ config = NoConfig
    /\ thrown = NoError
    /\ NoCalls

ConfigNext == Construct

SpecConfig == ConfigInit /\ [][ConfigNext]_vars

\* after a construction that returned
ClientInit(A) ==
    /\ phase = "ready"
    /\ ctorArgs \in {a \in A : validateConfig(NewConfig(a)) = NoError}
    /\ config = NewConfig(ctorArgs)
    /\ thrown = NoError
    /\ NoCalls

\* sendPersonalizedMessages up to its await, for every argument list
PayloadInit == ClientInit([username : {Str("testUser")}, apiKey : {Str("testApiKey")},
                           sender : {Undefined, Str("testSender")}])

PayloadNext ==
    /\ op[1] = NoOp
    /\ \E ns \in SeqsUpTo(Numbers, MaxLen), vs \in SeqsUpTo(Vars, MaxLen), o \in Options :
          sendPersonalizedMessages(1, Arr(ns), Template, Arr(vs), o)

SpecPayload == PayloadInit /\ [][PayloadNext]_vars

\* the public methods of invocation i with the arguments of the test suite
Call(i) ==
    \/ sendMessage(i, Number, Message)
    \/ sendPersonalizedMessages(i, Arr(<<Str("1234567890"), Str("0987654321")>>),
                                Template,
                                Arr(<<Obj([name |-> Str("John")]), Obj([name |-> Str("Doe")])>>),
                                Undefined)
    \/ calculateMessageCost(i, Str("individual"), Number, Message, Str("unit"), Str("UTF8"))
    \/ sendOTPCode(i, Number, Str("En"))
    \/ verifyOTPCode(i, Str("1234"), Num(7), Str("En"))

\* one invocation and every course of its request
TransportInit == ClientInit({TestArgs})

TransportNext ==
    \/ Call(1)
    \/ \E s \in StatusCodes : Response(1, s)
    \/ \E c \in Chunks : Data(1, c, MaxBody)
    \/ End(1)
    \/ \E c \in Causes : Error(1, c)
    \/ Resume(1)

SpecTransport == TransportInit /\ [][TransportNext]_vars

\* several invocations in flight, their transport events interleaved
ConcurrentInit == ClientInit({TestArgs})

ConcurrentNext ==
    \E i \in Calls :
        \/ sendMessage(i, Number, Message)
        \/ verifyOTPCode(i, Str("1234"), Num(7), Str("En"))
        \/ Response(i, 200)
        \/ \E c \in ConcChunks : Data(i, c, MaxConcBody)
        \/ End(i)
        \/ Error(i, "socket hang up")
        \/ Resume(i)

SpecConcurrent == ConcurrentInit /\ [][ConcurrentNext]_vars

-----------------------------------------------------------------------------
(* Properties *)

Constructed == phase # "new"

\* the words of the specification for each operation
ClaimedPrefix(o) ==
    CASE o = "sendMessage" -> "Error sending message: "
      [] o = "sendPersonalizedMessages" -> "Error sending personalized messages: "
      [] o = "calculateMessageCost" -> "Error calculating message cost: "
      [] o = "sendOTPCode" -> "Error sending OTP code: "
      [] o = "verifyOTPCode" -> "Error verifying OTP code: "

ClaimedPath(o) ==
    CASE o = "sendMessage" -> "/gw/sendsms.php"
      [] o = "sendPersonalizedMessages" -> "/gw/sendVars.php"
      [] o = "calculateMessageCost" -> "/gw/calculateCost.php"
      [] o = "sendOTPCode" -> "/gw/sendOTPCode.php"
      [] o = "verifyOTPCode" -> "/gw/verifyOTPCode.php"

\* the text a server sent, decoded as one document
BodyText(i) == Utf8Decode(Flatten(received[i]))

\* the text built from the chunks of invocation i alone, chunk by chunk
RECURSIVE ChunkwiseText(_)
ChunkwiseText(chunks) ==
    IF chunks = <<>> THEN <<>>
    ELSE Utf8Decode(Head(chunks)) \o ChunkwiseText(Tail(chunks))

\* C1: constructing the client with an empty (or omitted) username, an empty
\* sender or an empty (or omitted) API key throws an error whose message
\* names a field that is missing, and constructing it with all three
\* non-empty returns.
C1_EmptyFieldFailsConstruction ==
    Constructed =>
        /\ Falsy(ctorArgs.username) => thrown # NoError
        /\ ctorArgs.sender = Str("") => thrown # NoError
        /\ Falsy(ctorArgs.apiKey) => thrown # NoError
        /\ thrown = ErrUsername => Falsy(ctorArgs.username)
        /\ thrown = ErrSender => Falsy(ctorArgs.sender)
        /\ thrown = ErrApiKey => Falsy(ctorArgs.apiKey)
        /\ (~Falsy(ctorArgs.username) /\ ~Falsy(ctorArgs.sender) /\ ~Falsy(ctorArgs.apiKey))
              => (thrown = NoError /\ phase = "ready")

\* C7: validation reports the first failing field in the order username,
\* sender, API key: an empty username always yields the username message,
\* whatever the other two arguments are, and the API-key message is thrown
\* only when the username is non-empty (and the sender message only then, too).
C7_FirstFailingFieldReported ==
    Constructed =>
        /\ thrown \in {NoError, ErrUsername, ErrSender, ErrApiKey}
        /\ Falsy(ctorArgs.username) =>
              thrown = <<"Please add msegat username in the environment variables.">>
        /\ thrown = <<"Please add msegat API key in the environment variables.">> =>
              ~Falsy(ctorArgs.username)
        /\ thrown = <<"Please add msegat user sender in the environment variables.">> =>
              ~Falsy(ctorArgs.username)
        /\ (phase = "failed") = (thrown # NoError)

\* new Msegat('', '', '') threw the username message
C7_Witness ==
    /\ phase = "failed"
    /\ ctorArgs = [username |-> Str(""), apiKey |-> Str(""), sender |-> Str("")]
    /\ thrown = ErrUsername

\* C2: when sendRequest has rejected with "Problem with request: " and the
\* cause of the request error, the public method never resolves, and once it
\* has resumed it is rejected with a message that starts with the prefix of
\* its own operation, holds the cause, and holds the prefix of no other
\* operation.
C2_RejectionNamesOperationAndCause ==
    \A i \in Calls :
        reqPromise[i].state = "rejected" =>
            /\ reqErrored[i]
            /\ reqPromise[i].message = <<"Problem with request: ", cause[i]>>
            /\ callPromise[i].state # "resolved"
            /\ callPromise[i].state = "rejected" =>
                  /\ Head(callPromise[i].message) = ClaimedPrefix(op[i])
                  /\ cause[i] \in Range(callPromise[i].message)
                  /\ \A o \in Ops \ {op[i]} :
                        ClaimedPrefix(o) \notin Range(callPromise[i].message)

\* verifyOTPCode rejected after a connection error
C2_Witness ==
    /\ op[1] = "verifyOTPCode"
    /\ reqErrored[1]
    /\ cause[1] = "connect ECONNREFUSED"
    /\ callPromise[1].state = "rejected"

\* C3: when the response has ended and the text received is not JSON,
\* sendRequest has rejected with "Problem with request: ...", the public
\* method does not resolve and, once resumed, is rejected with its own
\* prefix, and no exception escaped the promise.
C3_UnparseableBodyRejects ==
    \A i \in Calls :
        (resEnded[i] /\ ~JSONParse(data[i]).ok) =>
            /\ reqPromise[i].state = "rejected"
            /\ Head(reqPromise[i].message) = "Problem with request: "
            /\ callPromise[i].state # "resolved"
            /\ callPromise[i].state = "rejected" =>
                  Head(callPromise[i].message) = ClaimedPrefix(op[i])
            /\ i \notin uncaught

\* C4: every invocation has issued exactly one request, a POST to the
\* endpoint of its own operation, whether it is pending, resolved or
\* rejected; a resolved call holds the value sendRequest resolved with.
C4_ExactlyOnePostPerInvocation ==
    \A i \in Calls :
        /\ op[i] = NoOp => requests[i] = <<>>
        /\ op[i] # NoOp =>
              /\ Len(requests[i]) = 1
              /\ requests[i][1].method = "POST"
              /\ requests[i][1].hostname = "www.msegat.com"
              /\ requests[i][1].path = ClaimedPath(op[i])
        /\ callPromise[i].state = "resolved" =>
              /\ reqPromise[i].state = "resolved"
              /\ callPromise[i].value = reqPromise[i].value

\* a call to verifyOTPCode failed, with one request issued
C4_Witness ==
    /\ op[1] = "verifyOTPCode"
    /\ callPromise[1].state = "rejected"
    /\ Len(requests[1]) = 1

\* C5: sendPersonalizedMessages called without options has issued a request
\* whose payload holds numbers and vars as given, whatever their lengths,
\* msgEncoding "UTF8" and the configured userName, apiKey and userSender;
\* the call was not rejected locally.
C5_PersonalizedPayloadVerbatim ==
    (op[1] = "sendPersonalizedMessages" /\ args[1].options = Undefined) =>
        /\ Len(requests[1]) = 1
        /\ callPromise[1].state = "pending"
        /\ LET p == requests[1][1].payload
               b == requests[1][1].body
           IN  /\ p.numbers = args[1].numbers /\ b.numbers = args[1].numbers
               /\ p.vars = args[1].vars
               /\ Len(b.vars[2]) = Len(args[1].vars[2])
               /\ p.msgEncoding = Str("UTF8") /\ b.msgEncoding = Str("UTF8")
               /\ p.userName = config.MSEGAT_USERNAME
               /\ p.apiKey = config.MSEGAT_API_KEY
               /\ p.userSender = config.MSEGAT_USER_SENDER
               /\ p.userName = ctorArgs.username
               /\ p.apiKey = ctorArgs.apiKey

\* two recipients and one variable object, no options
C5_Witness ==
    /\ op[1] = "sendPersonalizedMessages"
    /\ args[1].options = Undefined
    /\ Len(args[1].numbers[2]) = 2
    /\ Len(args[1].vars[2]) = 1
    /\ Len(requests[1]) = 1

\* C10: for every options value the msgEncoding of the outgoing payload is
\* a non-empty string: options.msgEncoding when that is non-empty, "UTF8"
\* otherwise.
C10_EncodingNeverEmpty ==
    op[1] = "sendPersonalizedMessages" =>
        LET p == requests[1][1].payload
            e == OptGet(args[1].options, "msgEncoding")
        IN  /\ p.msgEncoding # Undefined
            /\ p.msgEncoding # Str("")
            /\ p.msgEncoding = (IF Falsy(e) THEN Str("UTF8") ELSE e)
            /\ "msgEncoding" \in DOMAIN requests[1][1].body

\* C6: when the response has ended and the body the server sent is valid
\* JSON, sendRequest has resolved with the value of that body and the call,
\* once resumed, has resolved with it too, whatever the status code.
C6_ValidJsonBodyIsTheResult ==
    \A i \in Calls :
        (resEnded[i] /\ JSONParse(BodyText(i)).ok) =>
            /\ reqPromise[i] = Resolved(JSONParse(BodyText(i)).val)
            /\ callPromise[i].state # "pending" =>
                  callPromise[i] = Resolved(JSONParse(BodyText(i)).val)

\* C8: with several invocations in flight, a resolved call holds the value
\* parsed from the chunks of its own response, a rejected call holds the
\* cause of its own request error, a call whose own request had no event is
\* pending, and the configuration is the one built at construction.
C8_CallsAreIsolated ==
    /\ config = NewConfig(ctorArgs)
    /\ \A i \in Calls :
          /\ callPromise[i].state = "resolved" =>
                /\ resEnded[i]
                /\ callPromise[i].value = JSONParse(ChunkwiseText(received[i])).val
          /\ callPromise[i].state = "rejected" =>
                /\ reqErrored[i]
                /\ callPromise[i].message =
                      <<ClaimedPrefix(op[i]), "Problem with request: ", cause[i]>>
          /\ (op[i] # NoOp /\ ~resEnded[i] /\ ~reqErrored[i]) =>
                callPromise[i].state = "pending"
          /\ op[i] # NoOp =>
                /\ requests[i][1].payload.userName = ctorArgs.username
                /\ requests[i][1].payload.apiKey = ctorArgs.apiKey

\* the first call failed after receiving data while the second, issued
\* meanwhile, resolved with its own body
C8_Witness ==
    /\ callPromise[1].state = "rejected"
    /\ Len(received[1]) = 1
    /\ callPromise[2].state = "resolved"
    /\ Len(received[2]) = 2
    /\ callPromise[2].value = Num(11)

\* C9: a call settles at most once, is settled only after the end of its
\* response or an error of its request, and once either happened it is
\* settled or its settlement is due (sendRequest has settled and the method
\* resumes next).
C9_SettledExactlyWhenEndedOrErrored ==
    \A i \in Calls :
        op[i] # NoOp =>
            /\ settles[i] <= 1
            /\ callPromise[i].state # "pending" => (resEnded[i] \/ reqErrored[i])
            /\ (resEnded[i] \/ reqErrored[i]) =>
                  \/ callPromise[i].state # "pending"
                  \/ reqPromise[i].state # "pending"

====
